---- MODULE Spec2Model ----
(***************************************************************************)
(* Model of the daq-cmake module and schema templates:                     *)
(*   src/config/templates/DAQModuleRenameMe.cpp   (class RenameMe)         *)
(*   src/scripts/templates/renameme.jsonnet       (schema table `types`)   *)
(*                                                                         *)
(* The module holds two atomic counters.  generate_opmon_data() is three   *)
(* program steps (load, exchange(0), publish) that any monitoring thread   *)
(* may interleave with the other threads of the process.  The threads that *)
(* increment the counters are not part of the template; they are modelled  *)
(* as producer events that add one amount to each counter as two separate  *)
(* atomic increments, in either order.                                     *)
(*                                                                         *)
(* The counters are mathematical integers: their C++ type is declared in   *)
(* RenameMe.hpp, and the bounds below keep them far from any overflow.     *)
(*                                                                         *)
(* Variables marked "history" record what happened; no action copies them  *)
(* into program state.  ncalls and nprod also cap the length of a          *)
(* behaviour.                                                              *)
(***************************************************************************)
EXTENDS Integers, Sequences, FiniteSets, Bags, TLC

\* ------------------------------------------------------------------ bounds
MaxAmount == 2      \* a producer event adds 1..MaxAmount
MaxProduced == 1    \* producer events started in one behaviour
MaxCalls == 2       \* generate_opmon_data calls started in one behaviour

Names == {"m1"}                      \* the name the host constructs with
Payloads == {"cfgA", "cfgB"}         \* opaque data_t values
CommandNames == {"conf", "start"}    \* commands the host may dispatch
Callers == {"mon1", "mon2"}          \* threads calling generate_opmon_data
Amounts == 1..MaxAmount

VARIABLES
  name,                      \* DAQModule name (base class field)
  commands,                  \* DAQModule command map: command name -> handler
  m_total_amount,            \* std::atomic, cumulative
  m_amount_since_last_call,  \* std::atomic, read-and-clear
  initialized,               \* host: init() has been called
  dispatched,                \* host: outcome of the last command dispatch
  pc,                        \* per caller: position in generate_opmon_data
  info,                      \* per caller: the local opmon::RenameMeInfo
  published,                 \* records handed to publish(), in order
  pending,                   \* producer events between their two increments
  schema_args,               \* arguments handed to moo.oschema.sort_select
  ctor_name,                 \* history: the constructor's argument
  ncalls,                    \* history: generate_opmon_data calls started
  nprod,                     \* history: producer events started
  since_added,               \* history: sum of increments applied to
                             \*   m_amount_since_last_call
  call                       \* history, per caller: the running call

module_vars == <<name, commands, m_total_amount, m_amount_since_last_call>>
host_vars == <<initialized, dispatched>>
caller_vars == <<pc, info, published>>
hist_vars == <<ctor_name, ncalls, nprod, since_added, call>>
vars == <<module_vars, host_vars, caller_vars, pending, schema_args, hist_vars>>

\* ------------------------------------------------------- schema template
NoPattern == "none"
ns == "dunedaq.package.renameme"
ident == "moo.re.ident"             \* the identifier pattern of moo.re

\* s.number(name, dtype, doc), s.boolean(name, doc), s.string(name, pattern, doc)
number(n, dtype, doc) ==
  [name |-> n, schema |-> "number", dtype |-> dtype, pattern |-> NoPattern,
   path |-> ns, doc |-> doc]
boolean(n, doc) ==
  [name |-> n, schema |-> "boolean", dtype |-> "none", pattern |-> NoPattern,
   path |-> ns, doc |-> doc]
string(n, pattern, doc) ==
  [name |-> n, schema |-> "string", dtype |-> "none", pattern |-> pattern,
   path |-> ns, doc |-> doc]

\* Faulty variant: the String entry without its pattern.
types_no_pattern ==
  [int8 |-> number("int8", "i8", "A signed integer of 8 bytes"),
   uint8 |-> number("uint8", "u8", "An unsigned integer of 8 bytes"),
   float8 |-> number("float8", "f8", "A float of 8 bytes"),
   boolean |-> boolean("Boolean", "A boolean"),
   string |-> string("String", NoPattern, "A string")]

types ==
  [int8 |-> number("int8", "i8", "A signed integer of 8 bytes"),
   uint8 |-> number("uint8", "u8", "An unsigned integer of 8 bytes"),
   float8 |-> number("float8", "f8", "A float of 8 bytes"),
   boolean |-> boolean("Boolean", "A boolean"),
   string |-> string("String", ident, "A string")]

NotBuilt == [built |-> FALSE]

\* moo.oschema.sort_select(types, ns): the template's only statement.  The
\* schema is compiled when the package is built, before the host runs it.
BuildSchema ==
  /\ ~initialized
  /\ schema_args = NotBuilt
  /\ schema_args' = [built |-> TRUE, types |-> types, path |-> ns]
  /\ UNCHANGED <<module_vars, host_vars, caller_vars, pending, hist_vars>>

\* ------------------------------------------------------------ constructor
DAQModule(n) == [name |-> n, commands |-> [c \in {} |-> "none"]]

register_command(m, cmd, fn) ==
  [m EXCEPT !.commands = [c \in DOMAIN @ \cup {cmd} |->
                            IF c = cmd THEN fn ELSE @[c]]]

\* Faulty variant: the constructor without its register_command call.
RenameMe_no_conf(n) == DAQModule(n)

RenameMe(n) == register_command(DAQModule(n), "conf", "do_conf")

NoInfo == [total_amount |-> 0, amount_since_last_call |-> 0]
NoCall == [began |-> 0, clean |-> TRUE, startT |-> 0, startD |-> 0]
NoDispatch == [cmd |-> "none", payload |-> "none", outcome |-> "none",
               repeat |-> FALSE]

Init ==
  /\ \E n \in Names :
       /\ ctor_name = n
       /\ name = RenameMe(n).name
       /\ commands = RenameMe(n).commands
  /\ m_total_amount = 0
  /\ m_amount_since_last_call = 0
  /\ initialized = FALSE
  /\ dispatched = NoDispatch
  /\ pc = [c \in Callers |-> "idle"]
  /\ info = [c \in Callers |-> NoInfo]
  /\ published = <<>>
  /\ pending = EmptyBag
  /\ schema_args = NotBuilt
  /\ ncalls = 0
  /\ nprod = 0
  /\ since_added = 0
  /\ call = [c \in Callers |-> NoCall]

\* ------------------------------------------------------- host lifecycle
\* RenameMe::init(mcfg): empty body
init(mcfg) == UNCHANGED module_vars

\* The host calls init once, after construction (of a module of a built
\* package) and before anything else.
CallInit ==
  /\ ~initialized
  /\ schema_args.built
  /\ init("mcfg")
  /\ initialized' = TRUE
  /\ UNCHANGED <<dispatched, caller_vars, pending, schema_args, hist_vars>>

\* Faulty variant: a handler that clears the cumulative counter.
do_conf_resets(payload) ==
  /\ m_total_amount' = 0
  /\ UNCHANGED <<name, commands, m_amount_since_last_call>>

\* RenameMe::do_conf(const data_t&): empty body
do_conf(payload) == UNCHANGED module_vars

\* DAQModule::execute_command: look the command up, call the handler that
\* the constructor registered, report an unknown command otherwise.
ExecuteCommand(cmd, payload) ==
  /\ initialized
  /\ IF cmd \in DOMAIN commands /\ commands[cmd] = "do_conf"
       THEN /\ do_conf(payload)
            /\ dispatched' = [cmd |-> cmd, payload |-> payload,
                              outcome |-> "ok",
                              repeat |-> /\ dispatched.cmd = cmd
                                         /\ dispatched.payload = payload]
       ELSE /\ UNCHANGED module_vars
            /\ dispatched' = [cmd |-> cmd, payload |-> "none",
                              outcome |-> "UnknownCommand", repeat |-> FALSE]
  /\ UNCHANGED <<initialized, caller_vars, pending, schema_args, hist_vars>>

\* ------------------------------------------------- generate_opmon_data
\* A step of another thread that writes a counter: the calls in progress
\* no longer run undisturbed.
Disturb(c) ==
  [d \in Callers |->
     IF d # c /\ pc[d] # "idle" THEN [call[d] EXCEPT !.clean = FALSE]
     ELSE call[d]]

\* Faulty variant: exchange(0) where load() is meant.
Load_exchanges_total(c) ==
  /\ initialized
  /\ pc[c] = "idle"
  /\ ncalls < MaxCalls
  /\ info' = [info EXCEPT ![c] = [NoInfo EXCEPT !.total_amount = m_total_amount]]
  /\ m_total_amount' = 0
  /\ pc' = [pc EXCEPT ![c] = "loaded"]
  /\ ncalls' = ncalls + 1
  /\ call' = [Disturb(c) EXCEPT ![c] =
                [began |-> Len(published), clean |-> TRUE,
                 startT |-> m_total_amount,
                 startD |-> m_amount_since_last_call]]
  /\ UNCHANGED <<name, commands, m_amount_since_last_call, host_vars,
                 published, pending, schema_args, ctor_name, nprod,
                 since_added>>

\* Faulty variant: the wrong counter is loaded into total_amount.
Load_reads_since(c) ==
  /\ initialized
  /\ pc[c] = "idle"
  /\ ncalls < MaxCalls
  /\ info' = [info EXCEPT ![c] =
                [NoInfo EXCEPT !.total_amount = m_amount_since_last_call]]
  /\ pc' = [pc EXCEPT ![c] = "loaded"]
  /\ ncalls' = ncalls + 1
  /\ call' = [call EXCEPT ![c] =
                [began |-> Len(published), clean |-> TRUE,
                 startT |-> m_total_amount,
                 startD |-> m_amount_since_last_call]]
  /\ UNCHANGED <<module_vars, host_vars, published, pending, schema_args,
                 ctor_name, nprod, since_added>>

\* opmon::RenameMeInfo info; info.set_total_amount(m_total_amount.load());
Load(c) ==
  /\ initialized
  /\ pc[c] = "idle"
  /\ ncalls < MaxCalls
  /\ info' = [info EXCEPT ![c] = [NoInfo EXCEPT !.total_amount = m_total_amount]]
  /\ pc' = [pc EXCEPT ![c] = "loaded"]
  /\ ncalls' = ncalls + 1
  /\ call' = [call EXCEPT ![c] =
                [began |-> Len(published), clean |-> TRUE,
                 startT |-> m_total_amount,
                 startD |-> m_amount_since_last_call]]
  /\ UNCHANGED <<module_vars, host_vars, published, pending, schema_args,
                 ctor_name, nprod, since_added>>

\* Faulty variant: load() where exchange(0) is meant; nothing is cleared.
Exchange_no_clear(c) ==
  /\ pc[c] = "loaded"
  /\ info' = [info EXCEPT ![c].amount_since_last_call = m_amount_since_last_call]
  /\ pc' = [pc EXCEPT ![c] = "exchanged"]
  /\ UNCHANGED <<module_vars, host_vars, published, pending, schema_args,
                 hist_vars>>

\* Faulty variant: store(0) followed by load(); the record gets the new
\* value, not the one that was cleared.
Exchange_returns_new(c) ==
  /\ pc[c] = "loaded"
  /\ info' = [info EXCEPT ![c].amount_since_last_call = 0]
  /\ m_amount_since_last_call' = 0
  /\ pc' = [pc EXCEPT ![c] = "exchanged"]
  /\ call' = Disturb(c)
  /\ UNCHANGED <<name, commands, m_total_amount, host_vars, published, pending,
                 schema_args, ctor_name, ncalls, nprod, since_added>>

\* Faulty variant: the exchange waits until no producer is mid-event, as
\* it would behind a lock the producers hold.
Exchange_waits(c) ==
  /\ pc[c] = "loaded"
  /\ pending = EmptyBag
  /\ info' = [info EXCEPT ![c].amount_since_last_call = m_amount_since_last_call]
  /\ m_amount_since_last_call' = 0
  /\ pc' = [pc EXCEPT ![c] = "exchanged"]
  /\ call' = Disturb(c)
  /\ UNCHANGED <<name, commands, m_total_amount, host_vars, published, pending,
                 schema_args, ctor_name, ncalls, nprod, since_added>>

\* info.set_amount_since_last_call(m_amount_since_last_call.exchange(0));
Exchange(c) ==
  /\ pc[c] = "loaded"
  /\ info' = [info EXCEPT ![c].amount_since_last_call = m_amount_since_last_call]
  /\ m_amount_since_last_call' = 0
  /\ pc' = [pc EXCEPT ![c] = "exchanged"]
  /\ call' = Disturb(c)
  /\ UNCHANGED <<name, commands, m_total_amount, host_vars, published, pending,
                 schema_args, ctor_name, ncalls, nprod, since_added>>

\* Faulty variant: the record is published twice.
Publish_twice(c) ==
  /\ pc[c] = "exchanged"
  /\ published' = Append(Append(published, info[c]), info[c])
  /\ pc' = [pc EXCEPT ![c] = "idle"]
  /\ info' = [info EXCEPT ![c] = NoInfo]
  /\ call' = [call EXCEPT ![c] = NoCall]
  /\ UNCHANGED <<module_vars, host_vars, pending, schema_args,
                 ctor_name, ncalls, nprod, since_added>>

\* publish(std::move(info)); return
Publish(c) ==
  /\ pc[c] = "exchanged"
  /\ published' = Append(published, info[c])
  /\ pc' = [pc EXCEPT ![c] = "idle"]
  /\ info' = [info EXCEPT ![c] = NoInfo]
  /\ call' = [call EXCEPT ![c] = NoCall]
  /\ UNCHANGED <<module_vars, host_vars, pending, schema_args,
                 ctor_name, ncalls, nprod, since_added>>

\* ------------------------------------------------------------ producers
\* counter.fetch_add(a) on the counter named by `which`
Add(which, a) ==
  /\ m_total_amount' =
       IF which = "total" THEN m_total_amount + a ELSE m_total_amount
  /\ m_amount_since_last_call' =
       IF which = "since" THEN m_amount_since_last_call + a
       ELSE m_amount_since_last_call
  /\ since_added' = IF which = "since" THEN since_added + a ELSE since_added
  /\ call' = Disturb("none")
  /\ UNCHANGED <<name, commands>>

Other(which) == IF which = "total" THEN "since" ELSE "total"

\* A producer event starts: the first of its two atomic increments.  The
\* threads running events are interchangeable, so the events in progress
\* are kept as a bag of what each still has to add.
ProducerFirst(a, first) ==
  /\ initialized
  /\ nprod < MaxProduced
  /\ Add(first, a)
  /\ pending' = pending (+) SetToBag({[which |-> Other(first), amount |-> a]})
  /\ nprod' = nprod + 1
  /\ UNCHANGED <<host_vars, caller_vars, schema_args, ctor_name, ncalls>>

\* The same amount goes to the other counter.
ProducerSecond(e) ==
  /\ BagIn(e, pending)
  /\ Add(e.which, e.amount)
  /\ pending' = pending (-) SetToBag({e})
  /\ UNCHANGED <<host_vars, caller_vars, schema_args, ctor_name, ncalls,
                 nprod>>

\* ------------------------------------------------------------------ spec
\* The module under its monitoring threads and producers.  The command
\* handlers are left to Spec below: they do not touch the counters.
Next ==
  \/ BuildSchema
  \/ CallInit
  \/ \E c \in Callers : Load(c)
  \/ \E c \in Callers : Exchange(c)
  \/ \E c \in Callers : Publish(c)
  \/ \E a \in Amounts, first \in {"total", "since"} : ProducerFirst(a, first)
  \/ \E e \in BagToSet(pending) : ProducerSecond(e)

MonitorSpec == Init /\ [][Next]_vars

\* A thread inside generate_opmon_data keeps being scheduled; nothing is
\* assumed about the producers or the host.
FairMonitorSpec ==
  /\ MonitorSpec
  /\ \A c \in Callers : WF_vars(Exchange(c)) /\ WF_vars(Publish(c))

\* The same with the host dispatching commands at any time after init.
HostNext ==
  \/ Next
  \/ \E cmd \in CommandNames, payload \in Payloads : ExecuteCommand(cmd, payload)

Spec == Init /\ [][HostNext]_vars

\* ---------------------------------------------------------- properties
RECURSIVE SumSince(_)
SumSince(records) ==
  IF records = <<>> THEN 0
  ELSE records[1].amount_since_last_call + SumSince(Tail(records))

RECURSIVE SumOver(_, _)
SumOver(S, f) ==
  IF S = {} THEN 0
  ELSE LET x == CHOOSE y \in S : TRUE IN f[x] + SumOver(S \ {x}, f)

\* Amounts already taken out of the counter by calls that have not
\* published yet.
Exchanged ==
  SumOver({c \in Callers : pc[c] = "exchanged"},
          [c \in Callers |-> info[c].amount_since_last_call])

Record(t, d) == [total_amount |-> t, amount_since_last_call |-> d]

\* C1: read-and-clear loses and double-counts nothing.  In every reachable
\* state the amounts reported by the calls whose exchange has executed
\* (published or about to be), plus what the counter still holds, equal
\* the sum of all increments applied to the counter.
C1_NothingLostOrDoubled ==
  SumSince(published) + Exchanged + m_amount_since_last_call = since_added

\* An increment was reported by one call and a later call reported nothing.
C1_Witness ==
  /\ Len(published) = 2
  /\ SumSince(published) > 0
  /\ published[2].amount_since_last_call = 0
  /\ since_added = SumSince(published)

\* C2: a call during which no other thread writes a counter, started at
\* counters (T, D), publishes the record (T, D) and leaves the counters at
\* (T, 0); started at (T, 0), as a second immediate call is, it publishes
\* (T, 0).
C2_UndisturbedCall ==
  [][\A c \in Callers :
       (pc[c] = "exchanged" /\ pc'[c] = "idle" /\ call[c].clean) =>
         /\ published' = Append(published,
                                Record(call[c].startT, call[c].startD))
         /\ m_total_amount' = call[c].startT
         /\ m_amount_since_last_call' = 0]_vars

\* The second of two back-to-back calls is about to publish (T, 0) after
\* the first published (T, D) with D > 0 and T # D.
C2_Witness ==
  \E c \in Callers :
    /\ pc[c] = "exchanged"
    /\ call[c].clean
    /\ call[c].began = 1
    /\ Len(published) = 1
    /\ published[1].amount_since_last_call > 0
    /\ published[1].total_amount # published[1].amount_since_last_call
    /\ call[c].startT = published[1].total_amount
    /\ call[c].startD = 0
    /\ info[c] = Record(published[1].total_amount, 0)

\* C3: a step of generate_opmon_data leaves the total counter, the name and
\* the registered commands alone; its only write to the module is the
\* exchange's store of 0 into m_amount_since_last_call.
C3_Frame ==
  [][\A c \in Callers :
       pc'[c] # pc[c] =>
         /\ UNCHANGED <<m_total_amount, name, commands>>
         /\ IF pc[c] = "loaded"
              THEN m_amount_since_last_call' = 0
              ELSE UNCHANGED m_amount_since_last_call]_vars

\* A call has reset a non-zero since-last-call counter while the total
\* stayed non-zero.
C3_Witness ==
  /\ Len(published) >= 1
  /\ published[1].amount_since_last_call > 0
  /\ m_amount_since_last_call = 0
  /\ m_total_amount > 0

\* C4: the constructor stores the name and registers exactly the command
\* "conf", bound to do_conf; the command set stays {"conf"} in every state
\* reachable afterwards, and a dispatch of "conf" reaches the handler
\* without an error.
C4_OnlyConfRegistered ==
  /\ name = ctor_name
  /\ DOMAIN commands = {"conf"}
  /\ commands["conf"] = "do_conf"
  /\ dispatched.cmd = "conf" => dispatched.outcome = "ok"

\* "conf" was dispatched after init, calls and increments.
C4_Witness ==
  /\ initialized
  /\ dispatched.cmd = "conf"
  /\ dispatched.outcome = "ok"
  /\ Len(published) >= 1
  /\ m_total_amount > 0

\* C5: do_conf, for every payload, and init leave the whole module state
\* (both counters, name, registered commands) as it was, so a second
\* do_conf with the same payload ends where the first did.
C5_ConfAndInitPreserveState ==
  [][(\/ CallInit
      \/ \E cmd \in CommandNames, payload \in Payloads :
           ExecuteCommand(cmd, payload))
       => UNCHANGED module_vars]_vars

\* do_conf ran twice in a row with the same payload on non-zero counters.
C5_Witness ==
  /\ dispatched.cmd = "conf"
  /\ dispatched.repeat
  /\ m_total_amount > 0
  /\ m_amount_since_last_call > 0

\* C6: the table handed to sort_select has exactly five entries, named
\* int8, uint8, float8, Boolean and String, pairwise distinct, and the
\* String entry alone carries the identifier pattern.
C6_SchemaTable ==
  schema_args.built =>
    LET t == schema_args.types
        names == {t[k].name : k \in DOMAIN t}
    IN /\ Cardinality(DOMAIN t) = 5
       /\ names = {"int8", "uint8", "float8", "Boolean", "String"}
       /\ \A j, k \in DOMAIN t : t[j].name = t[k].name => j = k
       /\ \A k \in DOMAIN t :
            /\ t[k].name = "String" => t[k].pattern = ident
            /\ t[k].name # "String" => t[k].pattern = NoPattern

C6_Witness == schema_args.built /\ schema_args.path = ns

C8_StepOrder ==
  /\ [](Len(published) + Cardinality({c \in Callers : pc[c] # "idle"})
          = ncalls)
  /\ [][\A c \in Callers :
          pc'[c] # pc[c] =>
            \/ /\ pc[c] = "idle" /\ pc'[c] = "loaded"
               /\ info'[c] = Record(m_total_amount, 0)
               /\ published' = published
            \/ /\ pc[c] = "loaded" /\ pc'[c] = "exchanged"
               /\ info'[c] = Record(info[c].total_amount,
                                    m_amount_since_last_call)
               /\ published' = published
            \/ /\ pc[c] = "exchanged" /\ pc'[c] = "idle"
               /\ published' = Append(published, info[c])]_vars

\* Two calls have published records with different totals and deltas.
C8_Witness ==
  /\ Len(published) = 2
  /\ ncalls = 2
  /\ published[1] # published[2]
  /\ published[2].amount_since_last_call > 0

C10_Original ==
  \A j \in 1..Len(published) :
    SumSince(SubSeq(published, 1, j)) <= published[j].total_amount

\* C10 as amended: whenever no producer event is between its two
\* increments, the deltas published so far sum to at most the current
\* value of the total counter.
C10_DeltasWithinCurrentTotal ==
  pending = EmptyBag => SumSince(published) <= m_total_amount

\* A completed producer event has been reported in full.
C10_Witness ==
  /\ pending = EmptyBag
  /\ Len(published) >= 1
  /\ SumSince(published) = m_total_amount
  /\ m_total_amount > 0

====
